---------------------------- MODULE Spec2Model ----------------------------
(***************************************************************************)
(* Model of ApolloClient (src/griptape/apollo/tools/apollo/tool.py): the   *)
(* three tool activities search_people, search_organizations and           *)
(* enrich_people.  One invocation is: build the payload from the           *)
(* parameters (enrich_people validates first), issue one requests.post,    *)
(* then either format the decoded JSON into a list of text records or go   *)
(* through the except clauses.                                             *)
(*                                                                         *)
(* Python values are modelled as follows.  The dicts of the caller         *)
(* (params["values"], a target, the payload) are functions whose DOMAIN is *)
(* the set of keys present.  The values of the decoded response are tagged *)
(* records: Null, Bool(b), Num(n), Str(s), List(items), Obj(d); the dict d *)
(* of an Obj is a record over the keys the code reads, a key that is not   *)
(* in the JSON holding the tag "missing".  Strings are TLA+ strings;       *)
(* str.join and str.strip are computed on them.                            *)
(***************************************************************************)
EXTENDS Integers, Sequences, FiniteSets, TLC

VARIABLES
    pc,         \* position of the current invocation
    op,         \* which activity is running
    params,     \* params["values"] of the invocation (not read once the request has left)
    payload,    \* the JSON body handed to requests.post
    endpoint,   \* the URL handed to requests.post
    posts,      \* number of requests.post calls issued by the current invocation
    postExc,    \* exception class raised by requests.post itself, or "none"
    response,   \* the local variable `response`: unbound, or status and body
    result      \* what the invocation hands back to its caller

vars == <<pc, op, params, payload, endpoint, posts, postExc, response, result>>

---------------------------------------------------------------------------
(* Bounds of the model *)

\* longest filter list handed to a search
MaxItems == 2
\* longest `details` list handed to enrich_people
MaxTargets == 2
\* most people / organizations / matches in one response
MaxRecords == 2

---------------------------------------------------------------------------
(* Class attributes and fixed payload fields *)

SEARCH_ENDPOINT == "https://api.apollo.io/v1/mixed_people/search"
ORGANIZATION_SEARCH_ENDPOINT == "https://api.apollo.io/api/v1/mixed_companies/search"
BULK_MATCH_ENDPOINT == "https://api.apollo.io/api/v1/people/bulk_match"

page == 1
per_page == 10

\* the filter keys each search reads from params["values"], in source order
PeopleFilterKeys ==
    {"person_titles", "person_locations", "organization_locations",
     "organization_num_employees_ranges", "q_organization_keyword_tags",
     "q_organization_domains"}

OrganizationFilterKeys ==
    {"organization_num_employees_ranges", "organization_locations",
     "organization_not_locations", "q_organization_keyword_tags"}

---------------------------------------------------------------------------
(* Python built-ins used by the code *)

\* sep.join(items) for a list of strings
RECURSIVE Join(_, _)
Join(sep, items) ==
    IF Len(items) = 0 THEN ""
    ELSE IF Len(items) = 1 THEN Head(items)
    ELSE Head(items) \o sep \o Join(sep, Tail(items))

\* variant of JoinDomains: the separator is a comma
JoinDomainsComma(domains) == Join(",", domains)
\* "\n".join(domains), line 78
JoinDomains(domains) == Join("\n", domains)

Whitespace == {" ", "\t", "\n"}

RECURSIVE LStrip(_)
LStrip(s) ==
    IF Len(s) > 0 /\ SubSeq(s, 1, 1) \in Whitespace
    THEN LStrip(SubSeq(s, 2, Len(s)))
    ELSE s

RECURSIVE RStrip(_)
RStrip(s) ==
    IF Len(s) > 0 /\ SubSeq(s, Len(s), Len(s)) \in Whitespace
    THEN RStrip(SubSeq(s, 1, Len(s) - 1))
    ELSE s

\* str.strip()
Strip(s) == RStrip(LStrip(s))

---------------------------------------------------------------------------
(* Payload construction of the two searches *)

\* variant of FilterGiven: `is not None` instead of truthiness
FilterGivenNotNone(values, k) == k \in DOMAIN values
\* `if x := params["values"].get(k):` -- the key is present and its list is truthy
FilterGiven(values, k) == k \in DOMAIN values /\ Len(values[k]) > 0

\* lines 54-83
SearchPeoplePayload(values) ==
    LET given == {k \in PeopleFilterKeys : FilterGiven(values, k)}
    IN  [k \in given \cup {"page", "per_page", "contact_email_status"} |->
            CASE k = "page" -> page
              [] k = "per_page" -> per_page
              [] k = "contact_email_status" -> <<"verified">>
              [] k = "q_organization_domains" -> JoinDomains(values[k])
              [] OTHER -> values[k]]

\* lines 196-216
SearchOrganizationsPayload(values) ==
    LET given == {k \in OrganizationFilterKeys : FilterGiven(values, k)}
    IN  [k \in given \cup {"page", "per_page"} |->
            CASE k = "page" -> page
              [] k = "per_page" -> per_page
              [] OTHER -> values[k]]

---------------------------------------------------------------------------
(* Validation and payload construction of enrich_people *)

\* lines 334-338: keep only the fields whose value is non-empty after strip
CleanedPerson(person) ==
    LET kept == {k \in DOMAIN person : person[k] # "" /\ Strip(person[k]) # ""}
    IN  [k \in kept |-> person[k]]

\* line 341: the cleaned target carries a linkedin_url or an email
HasIdentifier(cleaned) ==
    "linkedin_url" \in DOMAIN cleaned \/ "email" \in DOMAIN cleaned

\* variants of DetailsRejected: an empty list is rejected too; only the first
\* target is looked at
DetailsRejectedOrEmpty(details) ==
    Len(details) = 0 \/ \E i \in 1..Len(details) : ~HasIdentifier(CleanedPerson(details[i]))
DetailsRejectedFirstOnly(details) ==
    Len(details) > 0 /\ ~HasIdentifier(CleanedPerson(details[1]))
\* lines 333-346: the loop returns at the first target without identifier
DetailsRejected(details) ==
    \E i \in 1..Len(details) : ~HasIdentifier(CleanedPerson(details[i]))

ValidationMessage == "Each person must have either a LinkedIn URL or email address"

\* lines 348-352
EnrichPayload(details) ==
    [details |-> [i \in 1..Len(details) |-> CleanedPerson(details[i])],
     reveal_personal_emails |-> FALSE,
     reveal_phone_number |-> FALSE]

---------------------------------------------------------------------------
(* Values of the decoded response *)

Missing == [t |-> "missing"]
Null == [t |-> "null"]
Bool(b) == [t |-> "bool", b |-> b]
Num(n) == [t |-> "num", n |-> n]
Str(s) == [t |-> "str", s |-> s]
List(items) == [t |-> "list", items |-> items]
Obj(d) == [t |-> "obj", d |-> d]
\* a body that json() cannot decode
NotJson == [t |-> "notjson"]

\* variant of Get: dict.get(k), the default dropped
GetNoneDefault(d, k, default) == IF d[k].t = "missing" THEN Null ELSE d[k]
\* dict.get(k, default)
Get(d, k, default) == IF d[k].t = "missing" THEN default ELSE d[k]

\* bool(x)
Truthy(x) ==
    CASE x.t = "null" -> FALSE
      [] x.t = "bool" -> x.b
      [] x.t = "num" -> x.n # 0
      [] x.t = "str" -> x.s # ""
      [] x.t = "list" -> Len(x.items) > 0
      [] x.t = "obj" -> \E k \in DOMAIN x.d : x.d[k].t # "missing"

\* how an f-string prints a scalar
Render(x) ==
    CASE x.t = "null" -> "None"
      [] x.t = "bool" -> IF x.b THEN "True" ELSE "False"
      [] x.t = "str" -> x.s
      [] OTHER -> "<value>"

\* the strings of a JSON list of strings
Strings(x) == [i \in 1..Len(x.items) |-> x.items[i].s]

\* the default {} of each dict the code reads
EmptyPagination ==
    Obj([total_entries |-> Missing, total_pages |-> Missing,
         page |-> Missing, per_page |-> Missing])
EmptyOrganization == Obj([name |-> Missing, website_url |-> Missing, linkedin_url |-> Missing])
EmptyPhone == Obj([number |-> Missing, source |-> Missing])
EmptyJob == Obj([current |-> Missing, organization_name |-> Missing])
EmptyList == List(<<>>)

\* outcome of a block of the handler: a value, or the exception it raised
Ok(v) == [ok |-> TRUE, v |-> v, exc |-> "none"]
Raise(cls) == [ok |-> FALSE, v |-> Null, exc |-> cls]

\* smallest element of a non-empty set of indices
First(S) == CHOOSE i \in S : \A j \in S : i <= j

\* variant of AppendAll: the summary appended after the loop
SummaryLast(summary, records) == records \o <<summary>>
\* formatted.append(summary) before the loop appends one record per item
\* (lines 110-122 and 142, 243-252 and 277, 373-385 and 412)
AppendAll(summary, records) == <<summary>> \o records

\* a for loop that formats every item and stops at the first exception
Loop(summary, formatted) ==
    LET failed == {i \in 1..Len(formatted) : ~formatted[i].ok}
    IN  IF failed # {} THEN Raise(formatted[First(failed)].exc)
        ELSE Ok(AppendAll(summary, [i \in 1..Len(formatted) |-> formatted[i].v]))

---------------------------------------------------------------------------
(* search_people: from the decoded body to the list of records *)

\* lines 125-159: one person
FormatPerson(person) ==
    IF person.t # "obj" THEN Raise("AttributeError")
    ELSE LET org == Get(person.d, "organization", EmptyOrganization)
             departments == Get(person.d, "departments", EmptyList)
             functions == Get(person.d, "functions", EmptyList)
         IN  IF org.t # "obj" THEN Raise("AttributeError")
             ELSE IF departments.t # "list" THEN Raise("TypeError")
             ELSE IF functions.t # "list" THEN Raise("TypeError")
             ELSE Ok([artifact |-> "person",
                      Company |-> Render(Get(org.d, "name", Null)),
                      CompanyWebsite |-> Render(Get(org.d, "website_url", Null)),
                      CompanyLinkedIn |-> Render(Get(org.d, "linkedin_url", Null)),
                      Departments |-> Join(", ", Strings(departments)),
                      Functions |-> Join(", ", Strings(functions))])

\* lines 103-161
SearchPeopleBody(data) ==
    IF data.t # "obj" THEN Raise("AttributeError")
    ELSE LET pagination == Get(data.d, "pagination", EmptyPagination)
         IN  IF pagination.t # "obj" THEN Raise("AttributeError")
             ELSE LET people_data == Get(data.d, "people", EmptyList)
                  IN  IF people_data.t # "list" THEN Raise("TypeError")
                      ELSE LET pagination_info ==
                                   [artifact |-> "pagination",
                                    total_entries |-> Get(pagination.d, "total_entries", Num(0)),
                                    total_pages |-> Get(pagination.d, "total_pages", Num(0)),
                                    page |-> Get(pagination.d, "page", Num(page)),
                                    per_page |-> Get(pagination.d, "per_page", Num(per_page))]
                           IN  Loop(pagination_info,
                                    [i \in 1..Len(people_data.items) |->
                                        FormatPerson(people_data.items[i])])

---------------------------------------------------------------------------
(* search_organizations: from the decoded body to the list of records *)

\* lines 256-259: the phone shown for one organization
PhoneNumber(org) ==
    LET phone_info == Get(org.d, "primary_phone", EmptyPhone)
    IN  IF Truthy(phone_info)
        THEN IF phone_info.t # "obj" THEN Raise("AttributeError")
             ELSE Ok(Get(phone_info.d, "number", Null))
        ELSE Ok(Get(org.d, "phone", Null))

\* lines 254-296: one organization
FormatOrganization(org) ==
    IF org.t # "obj" THEN Raise("AttributeError")
    ELSE LET phone_number == PhoneNumber(org)
             languages == Get(org.d, "languages", EmptyList)
         IN  IF ~phone_number.ok THEN phone_number
             ELSE IF languages.t # "list" THEN Raise("TypeError")
             ELSE Ok([artifact |-> "organization",
                      Name |-> Render(Get(org.d, "name", Null)),
                      Phone |-> Render(phone_number.v),
                      Languages |-> Join(", ", Strings(languages))])

\* lines 236-298
SearchOrganizationsBody(data) ==
    IF data.t # "obj" THEN Raise("AttributeError")
    ELSE LET pagination == Get(data.d, "pagination", EmptyPagination)
         IN  IF pagination.t # "obj" THEN Raise("AttributeError")
             ELSE LET organizations_data == Get(data.d, "organizations", EmptyList)
                  IN  IF organizations_data.t # "list" THEN Raise("TypeError")
                      ELSE LET pagination_info ==
                                   [artifact |-> "pagination",
                                    total_entries |-> Get(pagination.d, "total_entries", Num(0))]
                           IN  Loop(pagination_info,
                                    [i \in 1..Len(organizations_data.items) |->
                                        FormatOrganization(organizations_data.items[i])])

---------------------------------------------------------------------------
(* enrich_people: from the decoded body to the list of records *)

\* lines 389-396: next(job for job in history if job.get("current"), {})
CurrentJob(history) ==
    LET stops == {i \in 1..Len(history.items) :
                     \/ history.items[i].t # "obj"
                     \/ Truthy(Get(history.items[i].d, "current", Null))}
    IN  IF stops = {} THEN Ok(EmptyJob)
        ELSE IF history.items[First(stops)].t # "obj" THEN Raise("AttributeError")
        ELSE Ok(history.items[First(stops)])

\* lines 388-412: one match
FormatMatch(person) ==
    IF person.t # "obj" THEN Raise("AttributeError")
    ELSE LET history == Get(person.d, "employment_history", EmptyList)
             departments == Get(person.d, "departments", EmptyList)
             functions == Get(person.d, "functions", EmptyList)
         IN  IF history.t # "list" THEN Raise("TypeError")
             ELSE LET current_job == CurrentJob(history)
                  IN  IF ~current_job.ok THEN current_job
                      ELSE IF departments.t # "list" THEN Raise("TypeError")
                      ELSE IF functions.t # "list" THEN Raise("TypeError")
                      ELSE Ok([artifact |-> "match",
                               Name |-> Render(Get(person.d, "name", Null)),
                               CurrentCompany |->
                                   Render(Get(current_job.v.d, "organization_name", Null)),
                               Departments |-> Join(", ", Strings(departments)),
                               Functions |-> Join(", ", Strings(functions))])

\* lines 373-414
EnrichPeopleBody(data) ==
    IF data.t # "obj" THEN Raise("AttributeError")
    ELSE LET summary ==
                 [artifact |-> "summary",
                  total_requested |-> Get(data.d, "total_requested_enrichments", Num(0)),
                  enriched |-> Get(data.d, "unique_enriched_records", Num(0)),
                  missing |-> Get(data.d, "missing_records", Num(0)),
                  credits |-> Get(data.d, "credits_consumed", Num(0))]
             matches == Get(data.d, "matches", EmptyList)
         IN  IF matches.t # "list" THEN Raise("TypeError")
             ELSE Loop(summary,
                       [i \in 1..Len(matches.items) |-> FormatMatch(matches.items[i])])

---------------------------------------------------------------------------
(* The try block around the POST and its except clauses *)

ListArtifact(records) == [kind |-> "ListArtifact", value |-> "", records |-> records]
ErrorArtifact(value) == [kind |-> "ErrorArtifact", value |-> value, records |-> <<>>]
\* the invocation ends by propagating an exception of class cls to its caller
Raised(cls) == [kind |-> "raised", value |-> cls, records |-> <<>>]
NoResult == [kind |-> "none", value |-> "", records |-> <<>>]

DecodeMessage == "Failed to decode JSON from response"
RequestFailedPrefix == "Request failed: "

\* what requests.post raises when no response arrives
TransportErrors == {"ConnectionError", "Timeout"}

\* response.json() on an undecodable body raises requests' JSONDecodeError, which
\* is both a RequestException and a ValueError, from requests 2.27 on, and the
\* json module's JSONDecodeError, a ValueError only, before; the code pins no version
JsonErrors == {"requests.JSONDecodeError", "json.JSONDecodeError"}

\* the classes among those named by the except clauses that cls is an instance of
Bases(cls) ==
    CASE cls \in TransportErrors \cup {"HTTPError"} -> {"RequestException"}
      [] cls = "requests.JSONDecodeError" -> {"RequestException", "ValueError"}
      [] cls = "json.JSONDecodeError" -> {"ValueError"}
      [] OTHER -> {}

\* variant of RaiseForStatus: the status is never checked
RaiseForStatusNever(status) == FALSE
\* response.raise_for_status(), line 100: raises HTTPError for 4xx and 5xx
RaiseForStatus(status) == status >= 400 /\ status < 600

Unbound == [bound |-> FALSE, status |-> 0, body |-> Null]
Response(status, body) == [bound |-> TRUE, status |-> status, body |-> body]

\* lines 162-168 (299-305, 416-422): the except clauses, tried in order; the first
\* one reads response.text, which raises UnboundLocalError when `response` was
\* never assigned
Except(cls, resp) ==
    IF "RequestException" \in Bases(cls)
    THEN IF resp.bound THEN ErrorArtifact(RequestFailedPrefix \o cls)
         ELSE Raised("UnboundLocalError")
    ELSE IF "ValueError" \in Bases(cls)
    THEN ErrorArtifact(DecodeMessage)
    ELSE Raised(cls)

\* lines 92-168 (225-305, 361-422) after requests.post has returned or raised:
\* raise_for_status, json(), the formatting of the activity, and the except clauses
Try(activity, raisedByPost, resp, jsonError) ==
    IF raisedByPost # "none" THEN Except(raisedByPost, resp)
    ELSE IF RaiseForStatus(resp.status) THEN Except("HTTPError", resp)
    ELSE IF resp.body.t = "notjson" THEN Except(jsonError, resp)
    ELSE LET r == CASE activity = "search_people" -> SearchPeopleBody(resp.body)
                    [] activity = "search_organizations" -> SearchOrganizationsBody(resp.body)
                    [] activity = "enrich_people" -> EnrichPeopleBody(resp.body)
         IN  IF r.ok THEN ListArtifact(r.v) ELSE Except(r.exc, resp)

---------------------------------------------------------------------------
(* Inputs of the activities *)

SampleItems == <<"a.com", "b.com", "c.com", "d.com">>

\* the lists a filter field may hold
FilterLists == {SubSeq(SampleItems, 1, n) : n \in 0..MaxItems}

\* params["values"] of a search: any subset of the keys, each with a list
SearchValues(keys) == UNION {[S -> FilterLists] : S \in SUBSET keys}

EmailValues == {"", " ", "x@y.com"}
UrlValues == {"", " \t", "https://www.linkedin.com/in/x"}

\* a target: optional email and optional linkedin_url, both strings
Targets ==
    {[k \in S |-> f[k]] :
        S \in SUBSET {"email", "linkedin_url"},
        f \in [email : EmailValues, linkedin_url : UrlValues]}

DetailsLists == UNION {[1..n -> Targets] : n \in 0..MaxTargets}

NoParams == [k \in {} |-> <<>>]

---------------------------------------------------------------------------
(* Answers of the remote service *)

Statuses == {200, 304, 404, 500}

ListsOf(S) == UNION {[1..n -> S] : n \in 0..MaxRecords}

PaginationValues ==
    {Missing, Null,
     Obj([total_entries |-> Num(2), total_pages |-> Num(1),
          page |-> Num(1), per_page |-> Num(10)])}

Acme ==
    Obj([name |-> Str("Acme"), website_url |-> Str("acme.com"), linkedin_url |-> Missing])

People ==
    {Obj([organization |-> o, departments |-> d, functions |-> f]) :
        o \in {Missing, Null, Acme},
        d \in {Missing, Null, List(<<Str("engineering")>>)},
        f \in {Missing, Null, List(<<Str("backend"), Str("data")>>)}}

PeopleBodies ==
    {Obj([pagination |-> p, people |-> l]) :
        p \in PaginationValues,
        l \in {Missing, Null} \cup {List(q) : q \in ListsOf(People)}}

Organizations ==
    {Obj([name |-> Str("Acme"), primary_phone |-> pp, phone |-> ph, languages |-> l]) :
        pp \in {Missing, Null, EmptyPhone,
                Obj([number |-> Str("+1 111"), source |-> Str("Owler")]),
                Obj([number |-> Missing, source |-> Str("Owler")])},
        ph \in {Missing, Str("+1 222")},
        l \in {Missing, Null, List(<<Str("English")>>)}}

OrganizationBodies ==
    {Obj([pagination |-> p, organizations |-> l]) :
        p \in PaginationValues,
        l \in {Missing, Null} \cup {List(q) : q \in ListsOf(Organizations)}}

OldJob == Obj([current |-> Bool(FALSE), organization_name |-> Str("OldCo")])
NewJob == Obj([current |-> Bool(TRUE), organization_name |-> Str("NewCo")])
SideJob == Obj([current |-> Bool(TRUE), organization_name |-> Str("SideCo")])

Matches ==
    {Obj([name |-> Str("Ann"), employment_history |-> h, departments |-> d, functions |-> f]) :
        h \in {Missing, Null, List(<<>>), List(<<OldJob>>), List(<<OldJob, NewJob>>),
               List(<<NewJob, SideJob>>)},
        d \in {Missing, List(<<Str("engineering")>>)},
        f \in {Missing, List(<<Str("backend")>>)}}

EnrichBodies ==
    {Obj([total_requested_enrichments |-> c, unique_enriched_records |-> c,
          missing_records |-> c, credits_consumed |-> c, matches |-> l]) :
        c \in {Missing, Num(1)},
        l \in {Missing, Null} \cup {List(q) : q \in ListsOf(Matches)}}

BodiesOf(activity) ==
    CASE activity = "search_people" -> PeopleBodies
      [] activity = "search_organizations" -> OrganizationBodies
      [] activity = "enrich_people" -> EnrichBodies

\* the responses requests.post may return: any decodable or undecodable body with
\* status 200; with another status, an undecodable body, a JSON list or the
\* smallest JSON object of the activity
Responses(activity) ==
    {Response(200, b) : b \in BodiesOf(activity) \cup {NotJson, EmptyList}}
    \cup {Response(st, b) :
            st \in Statuses \ {200},
            b \in {NotJson, EmptyList} \cup
                  {x \in BodiesOf(activity) : \A k \in DOMAIN x.d : x.d[k].t = "missing"}}

---------------------------------------------------------------------------
(* The invocations *)

Init ==
    /\ pc = "idle"
    /\ op = "none"
    /\ params = NoParams
    /\ payload = NoParams
    /\ endpoint = ""
    /\ posts = 0
    /\ postExc = "none"
    /\ response = Unbound
    /\ result = NoResult

\* an activity is invoked on a client that is not inside another invocation
Callable == pc = "idle"

\* lines 53-98: build the payload, then requests.post
Post(activity, values, url, body) ==
    /\ op' = activity
    /\ params' = values
    /\ payload' = body
    /\ endpoint' = url
    /\ posts' = 1
    /\ postExc' = "none"
    /\ response' = Unbound
    /\ result' = NoResult
    /\ pc' = "post"

search_people ==
    /\ Callable
    /\ \E values \in SearchValues(PeopleFilterKeys) :
          Post("search_people", values, SEARCH_ENDPOINT, SearchPeoplePayload(values))

search_organizations ==
    /\ Callable
    /\ \E values \in SearchValues(OrganizationFilterKeys) :
          Post("search_organizations", values, ORGANIZATION_SEARCH_ENDPOINT,
               SearchOrganizationsPayload(values))

\* lines 328-367: a rejected list returns the validation error before any POST
enrich_people ==
    /\ Callable
    /\ \E details \in DetailsLists :
          IF DetailsRejected(details)
          THEN /\ op' = "enrich_people"
               /\ params' = [details |-> details]
               /\ payload' = NoParams
               /\ endpoint' = ""
               /\ posts' = 0
               /\ postExc' = "none"
               /\ response' = Unbound
               /\ result' = ErrorArtifact(ValidationMessage)
               /\ pc' = "done"
          ELSE Post("enrich_people", [details |-> details], BULK_MATCH_ENDPOINT,
                    EnrichPayload(details))

\* the request has left: the POST now waits for the answer.  params and payload
\* are not read again by the invocation.
PostSent ==
    /\ pc = "post"
    /\ pc' = "wait"
    /\ params' = NoParams
    /\ payload' = NoParams
    /\ UNCHANGED <<op, endpoint, posts, postExc, response, result>>

\* requests.post raises: connection failure while sending, or the timeout aborting
\* the wait; `response` stays unassigned
PostRaises ==
    /\ pc \in {"post", "wait"}
    /\ \E cls \in TransportErrors : postExc' = cls
    /\ pc' = "try"
    /\ params' = NoParams
    /\ payload' = NoParams
    /\ UNCHANGED <<op, endpoint, posts, response, result>>

\* requests.post returns a response, which is assigned to `response`
PostReturns ==
    /\ pc = "wait"
    /\ \E r \in Responses(op) : response' = r
    /\ pc' = "try"
    /\ UNCHANGED <<op, params, payload, endpoint, posts, postExc, result>>

\* the rest of the try block and the except clauses of the running activity
Return(activity) ==
    /\ pc = "try"
    /\ op = activity
    /\ \E jsonError \in JsonErrors : result' = Try(activity, postExc, response, jsonError)
    /\ pc' = "done"
    /\ UNCHANGED <<op, params, payload, endpoint, posts, postExc, response>>

search_people_return == Return("search_people")
search_organizations_return == Return("search_organizations")
enrich_people_return == Return("enrich_people")

\* the caller has the result; nothing local to the invocation outlives it
Finished ==
    /\ pc = "done"
    /\ pc' = "idle"
    /\ op' = "none"
    /\ params' = NoParams
    /\ payload' = NoParams
    /\ endpoint' = ""
    /\ posts' = 0
    /\ postExc' = "none"
    /\ response' = Unbound
    /\ result' = NoResult

Next ==
    \/ search_people
    \/ search_organizations
    \/ enrich_people
    \/ PostSent
    \/ PostRaises
    \/ PostReturns
    \/ search_people_return
    \/ search_organizations_return
    \/ enrich_people_return
    \/ Finished

Spec == Init /\ [][Next]_vars

---------------------------------------------------------------------------
(* Vocabulary of the properties *)

Done == pc = "done"

StartsWith(s, prefix) ==
    Len(s) >= Len(prefix) /\ SubSeq(s, 1, Len(prefix)) = prefix

\* the value is the request-failure error and carries no records
IsRequestError(r) ==
    r.kind = "ErrorArtifact" /\ StartsWith(r.value, "Request failed: ") /\ r.records = <<>>

\* the value is the decode error and carries no records
IsDecodeError(r) ==
    r.kind = "ErrorArtifact" /\ r.value = "Failed to decode JSON from response"
    /\ r.records = <<>>

IsValidationError(r) ==
    r.kind = "ErrorArtifact" /\ r.records = <<>>
    /\ r.value = "Each person must have either a LinkedIn URL or email address"

\* the POST returned a response with a decodable body
Decoded == response.bound /\ response.body.t # "notjson"

\* the items of the decoded body under key, none when the key is missing
ItemsOf(key) ==
    IF response.body.d[key].t = "list" THEN response.body.d[key].items ELSE <<>>

ItemsKey ==
    CASE op = "search_people" -> "people"
      [] op = "search_organizations" -> "organizations"
      [] op = "enrich_people" -> "matches"

\* some character of s is not whitespace
NonBlank(s) == \E i \in 1..Len(s) : SubSeq(s, i, i) \notin {" ", "\t", "\n"}

\* the target names at least one non-blank identifier
Identified(target) ==
    \E k \in {"email", "linkedin_url"} \cap DOMAIN target : NonBlank(target[k])

\* enrich_people has just validated params: the POST is in flight or the call was rejected
EnrichValidated == op = "enrich_people" /\ pc \in {"post", "done"} /\ "details" \in DOMAIN params

\* the items separated by newlines, built left to right
NewlineSeparated(items) ==
    LET f[n \in 0..Len(items)] ==
            IF n = 0 THEN ""
            ELSE IF n = 1 THEN items[1]
            ELSE f[n - 1] \o "\n" \o items[n]
    IN  f[Len(items)]

\* no value anywhere in x is a JSON null
RECURSIVE NullFree(_)
NullFree(x) ==
    /\ x.t # "null"
    /\ x.t = "obj" => \A k \in DOMAIN x.d : NullFree(x.d[k])
    /\ x.t = "list" => \A i \in 1..Len(x.items) : NullFree(x.items[i])

---------------------------------------------------------------------------
(* Properties *)

\* C1: when requests.post raises without producing a response (connection
\* failure or timeout), the invocation returns the request-failure error value
\* instead of raising.
C1_TransportFailureReturnsRequestError ==
    (Done /\ postExc # "none") => IsRequestError(result)

C3_TargetsNeedIdentifier ==
    EnrichValidated =>
        IF \E i \in 1..Len(params.details) : ~Identified(params.details[i])
        THEN pc = "done" /\ IsValidationError(result) /\ posts = 0
        ELSE pc = "post" /\ posts = 1 /\ result.kind = "none"

\* a list rejected for its second target, whose only field is a blank email
C3_Witness ==
    /\ EnrichValidated /\ Len(params.details) = 2
    /\ DOMAIN params.details[1] = {"email"} /\ params.details[1]["email"] = "x@y.com"
    /\ DOMAIN params.details[2] = {"email"} /\ params.details[2]["email"] = " "
    /\ IsValidationError(result) /\ posts = 0

\* C4 as stated: enrich_people called with an empty list of targets is rejected
\* by validation and not sent to the bulk-match endpoint.
C4_EmptyListRejected ==
    (EnrichValidated /\ Len(params.details) = 0)
        => (pc = "done" /\ result.kind = "ErrorArtifact" /\ posts = 0)

\* C4 amended: enrich_people does not check that the list is non-empty: called
\* with an empty list it returns no validation error and issues the POST to the
\* bulk-match endpoint with an empty details list.
C4_EmptyListIsPosted ==
    (EnrichValidated /\ Len(params.details) = 0)
        => /\ pc = "post" /\ posts = 1 /\ result.kind = "none"
           /\ endpoint = "https://api.apollo.io/api/v1/people/bulk_match"
           /\ Len(payload.details) = 0

C4_Witness ==
    /\ op = "enrich_people" /\ pc = "post" /\ posts = 1
    /\ "details" \in DOMAIN params /\ params.details = <<>>

\* C5: the body of a search holds a filter key exactly when the criteria hold it
\* with a non-empty list; it holds the list unchanged, except
\* q_organization_domains, held as the items separated by newlines.
C5_PayloadHoldsGivenFilters ==
    (pc = "post" /\ op \in {"search_people", "search_organizations"}) =>
        LET keys == IF op = "search_people" THEN PeopleFilterKeys
                    ELSE OrganizationFilterKeys
            fixed == IF op = "search_people"
                     THEN {"page", "per_page", "contact_email_status"}
                     ELSE {"page", "per_page"}
        IN  /\ DOMAIN payload \subseteq keys \cup fixed
            /\ \A k \in keys :
                  /\ k \in DOMAIN payload <=> (k \in DOMAIN params /\ Len(params[k]) > 0)
                  /\ k \in DOMAIN payload =>
                        IF k = "q_organization_domains"
                        THEN payload[k] = NewlineSeparated(params[k])
                        ELSE payload[k] = params[k]

\* two domains joined, one filter given empty and one filter absent
C5_Witness ==
    /\ pc = "post" /\ op = "search_people"
    /\ "q_organization_domains" \in DOMAIN params
    /\ params["q_organization_domains"] = <<"a.com", "b.com">>
    /\ payload["q_organization_domains"] = "a.com\nb.com"
    /\ "person_titles" \in DOMAIN params /\ params["person_titles"] = <<>>
    /\ "person_titles" \notin DOMAIN payload
    /\ "person_locations" \notin DOMAIN params
    /\ "person_locations" \notin DOMAIN payload

\* C6: when the response has a 2xx status and a body that is not valid JSON,
\* the invocation returns the decode error value, not the request-failure one.
C6_UndecodableBodyReturnsDecodeError ==
    (Done /\ response.bound /\ response.status >= 200 /\ response.status < 300
          /\ response.body.t = "notjson")
        => IsDecodeError(result)

\* C7: a returned list holds the summary record first, then one record per item
\* of the response in the response's order, so 1 + the number of items in all.
C7_SummaryFirstThenItems ==
    (Done /\ result.kind = "ListArtifact") =>
        LET items == ItemsOf(ItemsKey)
            records == result.records
            Shown(x, whenList) == IF x.t = "list" THEN whenList ELSE ""
        IN  /\ Len(records) = 1 + Len(items)
            /\ records[1].artifact =
                  (IF op = "enrich_people" THEN "summary" ELSE "pagination")
            /\ \A i \in 1..Len(items) :
                  CASE op = "search_people" ->
                          /\ records[i + 1].artifact = "person"
                          /\ records[i + 1].Company =
                                (IF items[i].d.organization.t = "obj" THEN "Acme" ELSE "None")
                          /\ records[i + 1].Departments =
                                Shown(items[i].d.departments, "engineering")
                          /\ records[i + 1].Functions =
                                Shown(items[i].d.functions, "backend, data")
                    [] op = "search_organizations" ->
                          /\ records[i + 1].artifact = "organization"
                          /\ records[i + 1].Languages =
                                Shown(items[i].d.languages, "English")
                    [] op = "enrich_people" ->
                          /\ records[i + 1].artifact = "match"
                          /\ records[i + 1].Departments =
                                Shown(items[i].d.departments, "engineering")
                          /\ records[i + 1].Functions =
                                Shown(items[i].d.functions, "backend")

\* two people that differ, returned in the order of the response
C7_Witness ==
    /\ Done /\ op = "search_people" /\ result.kind = "ListArtifact"
    /\ Len(ItemsOf("people")) = 2
    /\ ItemsOf("people")[1].d.organization.t = "obj"
    /\ ItemsOf("people")[2].d.organization.t = "missing"
    /\ result.records[1].artifact = "pagination"
    /\ result.records[2].Company = "Acme"
    /\ result.records[3].Company = "None"

\* C8: when the body decodes to a JSON object, whichever of the keys the
\* activity reads are missing from it (none of those present being null), the
\* invocation returns the list of records, the summary showing the defaults.
C8_MissingKeysNeverRaise ==
    (Done /\ Decoded /\ response.status = 200 /\ response.body.t = "obj"
          /\ NullFree(response.body))
        => /\ result.kind = "ListArtifact"
           /\ Len(result.records) = 1 + Len(ItemsOf(ItemsKey))
           /\ (op # "enrich_people" /\ response.body.d.pagination.t = "missing")
                 => result.records[1].total_entries = Num(0)
           /\ (op = "enrich_people"
                 /\ response.body.d.total_requested_enrichments.t = "missing")
                 => result.records[1].total_requested = Num(0)

\* an organization with every optional key missing, and no pagination
C8_Witness ==
    /\ Done /\ op = "search_organizations" /\ Decoded /\ response.status = 200
    /\ response.body.t = "obj"
    /\ response.body.d.pagination.t = "missing"
    /\ Len(ItemsOf("organizations")) = 1
    /\ ItemsOf("organizations")[1].d.primary_phone.t = "missing"
    /\ ItemsOf("organizations")[1].d.phone.t = "missing"
    /\ ItemsOf("organizations")[1].d.languages.t = "missing"
    /\ result.kind = "ListArtifact"
    /\ result.records[2].Phone = "None"
    /\ result.records[2].Languages = ""

\* C9: an invocation issues at most one POST, and when the POST fails, the
\* status is an error or the body does not decode, it ends with a single error
\* value and no records.
C9_NoRetrySingleError ==
    /\ posts <= 1
    /\ (Done /\ posts = 1
          /\ (\/ postExc # "none"
              \/ response.bound /\ response.status >= 400
              \/ response.bound /\ response.body.t = "notjson"))
        => (result.kind = "ErrorArtifact" /\ result.records = <<>>)

\* C10: the phone shown for an organization is the number of its primary_phone
\* when that carries one, and otherwise its flat phone field.
C10_PhoneFallsBackToFlatField ==
    (Done /\ op = "search_organizations" /\ result.kind = "ListArtifact") =>
        \A i \in 1..Len(ItemsOf("organizations")) :
            LET o == ItemsOf("organizations")[i].d
                hasNumber == o.primary_phone.t = "obj" /\ o.primary_phone.d.number.t = "str"
            IN  result.records[i + 1].Phone =
                    (IF hasNumber THEN o.primary_phone.d.number.s
                     ELSE IF o.phone.t = "str" THEN o.phone.s
                     ELSE "None")

=============================================================================
